---- MODULE Spec2Model ----
(***************************************************************************)
(* The NVIDIA device plugin of singularity-cri                             *)
(* (pkg/server/device/device.go): the constructor, Shutdown, the           *)
(* ListAndWatch streams and Allocate, together with the GPU monitor that   *)
(* feeds dp.unhealthyDev.                                                  *)
(*                                                                         *)
(* Every goroutine is a process with its own position: ListAndWatch is     *)
(* split at the points where the Go scheduler may interleave another      *)
(* goroutine (the channel receive, the map write, the map iteration, the   *)
(* blocking Send).  A Go panic or runtime fatal error ends the process:    *)
(* it is recorded in crash, and no action is enabled afterwards.           *)
(***************************************************************************)
EXTENDS Integers, Sequences, FiniteSets, TLC

(***************************************************************************)
(* Bounds of the model.                                                    *)
(***************************************************************************)
MaxGPUs == 2        \* GPUs the host may hold
MaxStreams == 2     \* ListAndWatch connections over the process's life
MaxEvents == 2      \* ids the monitor emits
MaxSent == 3        \* messages one stream sends
MaxContainers == 2  \* container requests in one AllocateRequest
MaxIDs == 2         \* device ids in one container request

(***************************************************************************)
(* Values.                                                                 *)
(***************************************************************************)
Healthy == "Healthy"
Unhealthy == "Unhealthy"

\* The zero value of string: what a receive from a closed channel yields.
ZeroString == ""
\* "no value": an empty channel slot, an unset local.
NoId == "<none>"
\* An id no enumeration ever returned.
UnknownUUID == "GPU-x"

UUIDs == <<"GPU-a", "GPU-b", "GPU-c", "GPU-d">>
DevPaths == <<"/dev/nvidia0", "/dev/nvidia1", "/dev/nvidia2", "/dev/nvidia3">>

\* The i-th GPU of the host, as nvml reports it (the fields the plugin reads).
HostGPU(i) == [UUID |-> UUIDs[i], Path |-> DevPaths[i]]
HostUUIDs == {UUIDs[i] : i \in 1..MaxGPUs}

Streams == 1..MaxStreams

\* An empty (or nil) Go map.
EmptyMap == <<>>

RetNil == "nil"
\* status.Errorf(codes.Unknown, ...)
RetUnknown == "codes.Unknown"
\* status.Errorf(codes.Internal, ...)
RetInternal == "codes.Internal"

VARIABLES
    ctor,       \* outcome of NewSingularityDevicePlugin: "none" before the call
    devices,    \* dp.devices: UUID -> device
    hospital,   \* dp.hospital: UUID -> health
    done,       \* dp.done: "nil", "open" or "closed"
    nvml,       \* the NVML library: "unloaded", "up" (Init) or "down" (Shutdown)
    sdPending,  \* invocations that closed dp.done and have not yet called nvml.Shutdown
    monitor,    \* the monitorGPUs goroutine: "off", "running" or "stopped"
    offer,      \* the id the monitor is blocked sending on dp.unhealthyDev, or NoId
    chanClosed, \* dp.unhealthyDev has been closed
    emitted,    \* ids the monitor has emitted so far
    pc,         \* position of each ListAndWatch call
    devID,      \* its local devID
    view,       \* dp.hospital as it was when its running iteration began
    devList,    \* the list it is sending
    ret,        \* its return value
    nSent,      \* messages it sent
    failed,     \* one of its calls of srv.Send returned an error
    lastMsg,    \* the last message it sent
    nRecv,      \* values it received from dp.unhealthyDev
    recvBy,     \* the set of those values
    lastRecv,   \* the stream that received from dp.unhealthyDev last, or 0
    atClose,    \* the streams that were running when dp.done was closed
    allocReq,   \* the last AllocateRequest served
    allocRet,   \* and what Allocate returned for it
    crash       \* "none", or the panic / fatal error that ended the process

plugin == <<ctor, devices, hospital, done, nvml>>
shutdown == <<sdPending, atClose>>
mon == <<monitor, offer, chanClosed, emitted>>
streams == <<pc, devID, view, devList, ret, nSent, failed, lastMsg, nRecv, recvBy, lastRecv>>
alloc == <<allocReq, allocRet>>
vars == <<plugin, shutdown, mon, streams, alloc, crash>>

NoMsg == [none |-> TRUE]
NoAlloc == [none |-> TRUE]

Init ==
    /\ ctor = "none"
    /\ devices = EmptyMap
    /\ hospital = EmptyMap
    /\ done = "nil"
    /\ nvml = "unloaded"
    /\ sdPending = 0
    /\ monitor = "off"
    /\ offer = NoId
    /\ chanClosed = FALSE
    /\ emitted = 0
    /\ pc = [s \in Streams |-> "idle"]
    /\ devID = [s \in Streams |-> NoId]
    /\ view = [s \in Streams |-> EmptyMap]
    /\ devList = [s \in Streams |-> NoMsg]
    /\ ret = [s \in Streams |-> NoId]
    /\ nSent = [s \in Streams |-> 0]
    /\ nRecv = [s \in Streams |-> 0]
    /\ recvBy = [s \in Streams |-> {}]
    /\ failed = [s \in Streams |-> FALSE]
    /\ lastMsg = [s \in Streams |-> NoMsg]
    /\ lastRecv = 0
    /\ atClose = {}
    /\ allocReq = NoAlloc
    /\ allocRet = NoAlloc
    /\ crash = "none"

\* The process is alive and the plugin was handed to the gRPC server.
Serving == ctor = "ok" /\ crash = "none"

(***************************************************************************)
(* NewSingularityDevicePlugin.  The collaborators' answers are its inputs: *)
(* exec.LookPath, BuildConfig, nvml.Init, nvml.GetDriverVersion,           *)
(* getDevices (an error, or the host's first n GPUs) and monitorGPUs.      *)
(* The deferred function reads the local err, which the return statements  *)
(* with a package-level error value do not assign.                         *)
(***************************************************************************)
\* The map the loop at lines 129-136 builds from getDevices' result.
DeviceMap(n) == [u \in {UUIDs[i] : i \in 1..n} |->
                    HostGPU(CHOOSE i \in 1..n : UUIDs[i] = u)]
HospitalMap(n) == [u \in {UUIDs[i] : i \in 1..n} |-> Healthy]

\* Mutant: an empty device set is reported as a load failure.
CtorOutcomeOneKind(lookOk, cfgOk, initOk, drvOk, devOk, n, monOk) ==
    IF ~lookOk THEN [ret |-> "errLookPath", dp |-> FALSE, err |-> TRUE, maps |-> FALSE]
    ELSE IF ~cfgOk THEN [ret |-> "errBuildConfig", dp |-> FALSE, err |-> TRUE, maps |-> FALSE]
    ELSE IF ~initOk THEN [ret |-> "ErrUnableToLoad", dp |-> FALSE, err |-> TRUE, maps |-> FALSE]
    ELSE IF ~drvOk THEN [ret |-> "ErrUnableToLoad", dp |-> TRUE, err |-> TRUE, maps |-> FALSE]
    ELSE IF ~devOk THEN [ret |-> "errGetDevices", dp |-> TRUE, err |-> TRUE, maps |-> FALSE]
    ELSE IF n = 0 THEN [ret |-> "ErrUnableToLoad", dp |-> TRUE, err |-> FALSE, maps |-> FALSE]
    ELSE IF ~monOk THEN [ret |-> "errMonitor", dp |-> TRUE, err |-> TRUE, maps |-> TRUE]
    ELSE [ret |-> "ok", dp |-> TRUE, err |-> FALSE, maps |-> TRUE]

\* The constructor's outcome: what it returns, the local err at the return
\* (so whether the deferred function calls dp.Shutdown), and how far it got.
CtorOutcome(lookOk, cfgOk, initOk, drvOk, devOk, n, monOk) ==
    IF ~lookOk THEN [ret |-> "errLookPath", dp |-> FALSE, err |-> TRUE, maps |-> FALSE]
    ELSE IF ~cfgOk THEN [ret |-> "errBuildConfig", dp |-> FALSE, err |-> TRUE, maps |-> FALSE]
    ELSE IF ~initOk THEN [ret |-> "ErrUnableToLoad", dp |-> FALSE, err |-> TRUE, maps |-> FALSE]
    ELSE IF ~drvOk THEN [ret |-> "ErrUnableToLoad", dp |-> TRUE, err |-> TRUE, maps |-> FALSE]
    ELSE IF ~devOk THEN [ret |-> "errGetDevices", dp |-> TRUE, err |-> TRUE, maps |-> FALSE]
    ELSE IF n = 0 THEN [ret |-> "ErrNoGPUs", dp |-> TRUE, err |-> FALSE, maps |-> FALSE]
    ELSE IF ~monOk THEN [ret |-> "errMonitor", dp |-> TRUE, err |-> TRUE, maps |-> TRUE]
    ELSE [ret |-> "ok", dp |-> TRUE, err |-> FALSE, maps |-> TRUE]

NewSingularityDevicePlugin(lookOk, cfgOk, initOk, drvOk, devOk, n, monOk) ==
    LET o == CtorOutcome(lookOk, cfgOk, initOk, drvOk, devOk, n, monOk)
        \* the deferred dp.Shutdown(): close(dp.done), then nvml.Shutdown()
        deferred == o.dp /\ o.err
    IN  /\ ctor = "none"
        /\ crash = "none"
        /\ ctor' = o.ret
        /\ done' = IF ~o.dp THEN "nil" ELSE IF deferred THEN "closed" ELSE "open"
        /\ nvml' = IF ~o.dp THEN "unloaded" ELSE IF deferred THEN "down" ELSE "up"
        /\ devices' = IF o.maps THEN DeviceMap(n) ELSE EmptyMap
        /\ hospital' = IF o.maps THEN HospitalMap(n) ELSE EmptyMap
        /\ monitor' = IF o.ret = "ok" THEN "running" ELSE "off"
        /\ UNCHANGED <<offer, chanClosed, emitted, shutdown, streams, alloc, crash>>

(***************************************************************************)
(* Shutdown: close(dp.done), then nvml.Shutdown().  Closing a closed       *)
(* channel panics.  Another goroutine may run between the two statements.  *)
(***************************************************************************)
ShutdownClose ==
    /\ Serving
    /\ IF done = "closed"
         THEN /\ crash' = "close of closed channel"
              /\ UNCHANGED <<done, sdPending, atClose>>
         ELSE /\ done' = "closed"
              /\ sdPending' = sdPending + 1
              /\ atClose' = {s \in Streams : pc[s] \notin {"idle", "returned"}}
              /\ UNCHANGED crash
    /\ UNCHANGED <<ctor, devices, hospital, nvml, mon, streams, alloc>>

\* Mutant: nvml.Shutdown() is called before close(dp.done).
ShutdownNvmlFirst ==
    /\ Serving
    /\ nvml = "up"
    /\ nvml' = "down"
    /\ UNCHANGED <<ctor, devices, hospital, done, sdPending, atClose, mon, streams, alloc, crash>>

ShutdownNvml ==
    /\ Serving
    /\ sdPending > 0
    /\ sdPending' = sdPending - 1
    /\ nvml' = "down"
    /\ UNCHANGED <<ctor, devices, hospital, done, atClose, mon, streams, alloc, crash>>

(***************************************************************************)
(* monitorGPUs: the goroutine behind dp.unhealthyDev.  It emits ids of the *)
(* devices it was seeded with, one at a time on an unbuffered channel, and *)
(* once it observes dp.done closed it stops and closes the channel.        *)
(***************************************************************************)
MonitorEmit(id) ==
    /\ crash = "none"
    /\ monitor = "running"
    /\ offer = NoId
    /\ emitted < MaxEvents
    /\ id \in DOMAIN devices
    /\ offer' = id
    /\ emitted' = emitted + 1
    /\ UNCHANGED <<monitor, chanClosed, plugin, shutdown, streams, alloc, crash>>

MonitorStop ==
    /\ crash = "none"
    /\ monitor = "running"
    /\ done = "closed"
    /\ monitor' = "stopped"
    /\ offer' = NoId
    /\ chanClosed' = TRUE
    /\ UNCHANGED <<emitted, plugin, shutdown, streams, alloc, crash>>

(***************************************************************************)
(* Go maps.                                                                *)
(***************************************************************************)
\* m[k] = v
MapAssign(m, k, v) == [x \in DOMAIN m \cup {k} |-> IF x = k THEN v ELSE m[x]]

\* The keys whose entry differs between a map as it was and as it is.
Changed(was, now) == {k \in DOMAIN now : k \notin DOMAIN was \/ was[k] # now[k]}

\* listK8sDevices: one k8sDP.Device {ID, Health} per entry of dp.hospital,
\* as a function ID -> Health (the order of a map iteration is unspecified).
\* An iteration that ran from map state `was` to map state `now` yields each
\* entry written in between either as it was or as it is.
\* Mutant: the list built at initialization is reported again.
listInitialDevices(was, now) == {[k \in DOMAIN was |-> Healthy]}

listK8sDevices(was, now) ==
    {[k \in DOMAIN was \cup P |-> IF k \in P THEN now[k] ELSE was[k]] :
        P \in SUBSET Changed(was, now)}

(***************************************************************************)
(* ListAndWatch, one call per stream s.                                    *)
(***************************************************************************)
\* Mutant: the call enters the select loop without sending the initial list.
OpenInLoop(s) ==
    /\ Serving
    /\ pc[s] = "idle"
    /\ pc' = [pc EXCEPT ![s] = "select"]
    /\ UNCHANGED <<devID, view, devList, ret, nSent, failed, lastMsg, nRecv, recvBy, lastRecv,
                   plugin, shutdown, mon, alloc, crash>>

\* line 161: the call starts by iterating dp.hospital
Open(s) ==
    /\ Serving
    /\ pc[s] = "idle"
    /\ pc' = [pc EXCEPT ![s] = "initList"]
    /\ view' = [view EXCEPT ![s] = hospital]
    /\ UNCHANGED <<devID, devList, ret, nSent, failed, lastMsg, nRecv, recvBy, lastRecv,
                   plugin, shutdown, mon, alloc, crash>>

\* lines 161 and 175: listK8sDevices returns
ListEnd(s) ==
    /\ Serving
    /\ pc[s] \in {"initList", "list"}
    /\ \E l \in listK8sDevices(view[s], hospital) :
           devList' = [devList EXCEPT ![s] = l]
    /\ pc' = [pc EXCEPT ![s] = IF pc[s] = "initList" THEN "initSend" ELSE "send"]
    /\ UNCHANGED <<devID, view, ret, nSent, failed, lastMsg, nRecv, recvBy, lastRecv,
                   plugin, shutdown, mon, alloc, crash>>

\* lines 163 and 175: srv.Send returns nil
SendOk(s) ==
    /\ Serving
    /\ pc[s] \in {"initSend", "send"}
    /\ pc' = [pc EXCEPT ![s] = "select"]
    /\ nSent' = [nSent EXCEPT ![s] = @ + 1]
    /\ lastMsg' = [lastMsg EXCEPT ![s] = devList[s]]
    /\ devList' = [devList EXCEPT ![s] = NoMsg]
    /\ view' = [view EXCEPT ![s] = EmptyMap]
    /\ UNCHANGED <<devID, ret, failed, nRecv, recvBy, lastRecv,
                   plugin, shutdown, mon, alloc, crash>>

\* Mutant: the send failure is reported with codes.Internal.
SendErrInternal == RetInternal

\* lines 164-166 and 176-178: srv.Send returns an error
SendErrCode == RetUnknown

SendFail(s) ==
    /\ Serving
    /\ pc[s] \in {"initSend", "send"}
    /\ pc' = [pc EXCEPT ![s] = "returned"]
    /\ ret' = [ret EXCEPT ![s] = SendErrCode]
    /\ failed' = [failed EXCEPT ![s] = TRUE]
    /\ devList' = [devList EXCEPT ![s] = NoMsg]
    /\ view' = [view EXCEPT ![s] = EmptyMap]
    /\ UNCHANGED <<devID, nSent, lastMsg, nRecv, recvBy, lastRecv,
                   plugin, shutdown, mon, alloc, crash>>

\* Mutant: the select has no shutdown case.
DoneNeverReady == FALSE
\* Mutant: the shutdown case is taken whatever the state of dp.done.
DoneAlwaysReady == TRUE

\* lines 169-170: case <-dp.done
DoneReady == done = "closed"

RecvDone(s) ==
    /\ Serving
    /\ pc[s] = "select"
    /\ DoneReady
    /\ pc' = [pc EXCEPT ![s] = "returned"]
    /\ ret' = [ret EXCEPT ![s] = RetNil]
    /\ UNCHANGED <<devID, view, devList, nSent, failed, lastMsg, nRecv, recvBy, lastRecv,
                   plugin, shutdown, mon, alloc, crash>>

\* line 171: case devID := <-dp.unhealthyDev.  The receive takes the id the
\* monitor offers; on a closed channel it yields the zero value at once.
\* The stream is then at line 172, the write of dp.hospital.
UnhealthyReady == offer # NoId \/ chanClosed
Received == IF offer # NoId THEN offer ELSE ZeroString

RecvUnhealthy(s) ==
    /\ Serving
    /\ pc[s] = "select"
    /\ UnhealthyReady
    /\ nSent[s] < MaxSent
    /\ pc' = [pc EXCEPT ![s] = "writing"]
    /\ devID' = [devID EXCEPT ![s] = Received]
    /\ nRecv' = [nRecv EXCEPT ![s] = @ + 1]
    /\ recvBy' = [recvBy EXCEPT ![s] = @ \cup {Received}]
    /\ lastRecv' = s
    /\ offer' = NoId
    /\ UNCHANGED <<view, devList, ret, nSent, failed, lastMsg,
                   monitor, chanClosed, emitted, plugin, shutdown, alloc, crash>>

\* line 172: dp.hospital[devID] = k8sDP.Unhealthy completes, and the iteration
\* of dp.hospital for the updated list (line 175) begins
\* Mutant: the write flips the health of the device.
MarkToggled(m, id) ==
    MapAssign(m, id, IF id \in DOMAIN m /\ m[id] = Unhealthy THEN Healthy ELSE Unhealthy)

\* Mutant: the map is rebuilt with only the notified device Unhealthy.
MarkOnlyUnhealthy(m, id) == [x \in DOMAIN m \cup {id} |-> IF x = id THEN Unhealthy ELSE Healthy]

MarkUnhealthy(m, id) == MapAssign(m, id, Unhealthy)

WriteEnd(s) ==
    /\ Serving
    /\ pc[s] = "writing"
    /\ hospital' = MarkUnhealthy(hospital, devID[s])
    /\ pc' = [pc EXCEPT ![s] = "list"]
    /\ view' = [view EXCEPT ![s] = hospital']
    /\ UNCHANGED <<devID, devList, ret, nSent, failed, lastMsg, nRecv, recvBy, lastRecv,
                   ctor, devices, done, nvml, shutdown, mon, alloc, crash>>

(***************************************************************************)
(* dp.hospital is read and written with no lock.  The Go runtime may end   *)
(* the process with a fatal error when a map write runs concurrently with  *)
(* another write or with an iteration of the same map.                     *)
(***************************************************************************)
Writing(s) == pc[s] = "writing"
Iterating(s) == pc[s] \in {"initList", "list"}

RaceCrash ==
    /\ Serving
    /\ \E s, t \in Streams :
         /\ s # t
         /\ Writing(s)
         /\ \/ Writing(t) /\ crash' = "concurrent map writes"
            \/ Iterating(t) /\ crash' = "concurrent map iteration and map write"
    /\ UNCHANGED <<plugin, shutdown, mon, streams, alloc>>

(***************************************************************************)
(* Allocate.  Its inputs are the request and the answers of the path       *)
(* resolver: nvidia.Paths (library and binary paths) and nvidia.Devices    *)
(* (the complementary device nodes).                                       *)
(***************************************************************************)
NvLibs == <<"/usr/lib/libcuda.so", "/usr/lib/libnvidia-ml.so">>
NvBins == <<"/usr/bin/nvidia-smi">>
NvDevs == <<"/dev/nvidiactl", "/dev/nvidia-uvm">>

SeqsUpTo(S, n) == UNION {[1..k -> S] : k \in 0..n}
\* The ids a request may name: every id the host could hold, and a foreign one.
RequestIDs == HostUUIDs \cup {UnknownUUID}
\* AllocateRequests of at most c ContainerRequests of at most i DevicesIDs each.
Requests(c, i) ==
    {[ContainerRequests |-> q] : q \in SeqsUpTo([DevicesIDs : SeqsUpTo(RequestIDs, i)], c)}

\* Mutant: the binary paths are mounted before the library paths.
nvidiaMountsBinsFirst(libs, bins) ==
    [i \in 1..Len(bins) |-> [ContainerPath |-> bins[i], HostPath |-> bins[i], ReadOnly |-> TRUE]]
        \o [i \in 1..Len(libs) |-> [ContainerPath |-> libs[i], HostPath |-> libs[i], ReadOnly |-> TRUE]]

\* lines 199-213: the mounts shared by every container of the call
Mount(path) == [ContainerPath |-> path, HostPath |-> path, ReadOnly |-> TRUE]
nvidiaMounts(libs, bins) ==
    [i \in 1..Len(libs) |-> Mount(libs[i])] \o [i \in 1..Len(bins) |-> Mount(bins[i])]

\* lines 219-223 and 227-231
DeviceSpec(path) == [ContainerPath |-> path, HostPath |-> path, Permissions |-> "rw"]

\* line 226: device := dp.devices[devID] is nil for a missing key, and
\* line 228 dereferences it
Known(id) == id \in DOMAIN devices
NilDeref(req) ==
    \E c \in 1..Len(req.ContainerRequests) :
        \E i \in 1..Len(req.ContainerRequests[c].DevicesIDs) :
            ~Known(req.ContainerRequests[c].DevicesIDs[i])

\* Mutant: the requested devices are appended last to first.
nvidiaDevicesReversed(ids, devs) ==
    [i \in 1..Len(devs) |-> DeviceSpec(devs[i])]
        \o [i \in 1..Len(ids) |-> DeviceSpec(devices[ids[Len(ids) + 1 - i]].Path)]

\* lines 217-232: the device specs of one container request
nvidiaDevices(ids, devs) ==
    [i \in 1..Len(devs) |-> DeviceSpec(devs[i])]
        \o [i \in 1..Len(ids) |-> DeviceSpec(devices[ids[i]].Path)]

\* lines 215-240
AllocateResponse(req, libs, bins, devs) ==
    [ContainerResponses |->
        [c \in 1..Len(req.ContainerRequests) |->
            [Mounts |-> nvidiaMounts(libs, bins),
             Devices |-> nvidiaDevices(req.ContainerRequests[c].DevicesIDs, devs)]]]

AllocateErr(msg) == [err |-> RetInternal, msg |-> msg]

Allocate(req, pathsOk, devsOk) ==
    /\ Serving
    /\ allocReq' = req
    /\ IF ~pathsOk
         THEN /\ allocRet' = AllocateErr("could not search NVIDIA files")
              /\ UNCHANGED crash
         ELSE IF ~devsOk
         THEN /\ allocRet' = AllocateErr("could not search NVIDIA complementary devices")
              /\ UNCHANGED crash
         ELSE IF NilDeref(req)
         THEN /\ allocRet' = NoAlloc
              /\ crash' = "invalid memory address or nil pointer dereference"
         ELSE /\ allocRet' = AllocateResponse(req, NvLibs, NvBins, NvDevs)
              /\ UNCHANGED crash
    /\ UNCHANGED <<plugin, shutdown, mon, streams>>

(***************************************************************************)
(* The system.                                                             *)
(***************************************************************************)
Construct ==
    \E lookOk, cfgOk, initOk, drvOk, devOk, monOk \in BOOLEAN, n \in 0..MaxGPUs :
        NewSingularityDevicePlugin(lookOk, cfgOk, initOk, drvOk, devOk, n, monOk)

Monitor ==
    \/ \E id \in HostUUIDs : MonitorEmit(id)
    \/ MonitorStop

ListAndWatch(s) ==
    \/ Open(s)
    \/ ListEnd(s)
    \/ SendOk(s)
    \/ SendFail(s)
    \/ RecvDone(s)
    \/ RecvUnhealthy(s)
    \/ WriteEnd(s)

\* The constructor, Shutdown, the monitor and the streams.
Next ==
    \/ Construct
    \/ ShutdownClose
    \/ ShutdownNvml
    \/ Monitor
    \/ \E s \in Streams : ListAndWatch(s)
    \/ RaceCrash

Spec == Init /\ [][Next]_vars

(***************************************************************************)
(* The same under the scheduling the runtime gives: a goroutine that can   *)
(* take its next step takes it, a select whose shutdown case is ready      *)
(* again and again takes it (the choice among ready cases is random), the  *)
(* monitor and Shutdown run on.  Nothing makes srv.Send return, the        *)
(* monitor emit or a client connect.                                       *)
(***************************************************************************)
Fairness ==
    /\ \A s \in Streams :
         /\ WF_vars(ListEnd(s))
         /\ WF_vars(WriteEnd(s))
         /\ SF_vars(RecvDone(s))
    /\ WF_vars(MonitorStop)
    /\ WF_vars(ShutdownNvml)

FairSpec == Spec /\ Fairness

\* Allocate on its own: the constructor, Shutdown and Allocate.
NextAlloc ==
    \/ Construct
    \/ ShutdownClose
    \/ ShutdownNvml
    \/ \E req \in Requests(MaxContainers, MaxIDs), pathsOk, devsOk \in BOOLEAN :
           Allocate(req, pathsOk, devsOk)

AllocSpec == Init /\ [][NextAlloc]_vars

\* Allocate served while a ListAndWatch stream runs: the constructor,
\* Shutdown, the monitor, one stream and Allocate.
NextServe ==
    \/ Construct
    \/ ShutdownClose
    \/ ShutdownNvml
    \/ Monitor
    \/ ListAndWatch(1)
    \/ \E req \in Requests(1, 1), pathsOk, devsOk \in BOOLEAN :
           Allocate(req, pathsOk, devsOk)

ServeSpec == Init /\ [][NextServe]_vars

(***************************************************************************)
(* Properties.                                                             *)
(***************************************************************************)
Active(s) == pc[s] \notin {"idle", "returned"}
\* The ids a device list reports Unhealthy.
UnhealthyIn(l) == {k \in DOMAIN l : l[k] = Unhealthy}
\* Every value the streams have received from dp.unhealthyDev so far.
Notified == UNION {recvBy[s] : s \in Streams}
AllHealthy == [k \in DOMAIN devices |-> Healthy]

\* C1: in every state after a successful NewSingularityDevicePlugin the key
\* set of dp.devices equals the key set of dp.hospital.
C1_KeysEqual == ctor = "ok" => DOMAIN devices = DOMAIN hospital

\* C2 as claimed: the first message of every stream, whenever the stream is
\* opened, reports every known device Healthy (the snapshot taken right
\* after initialization).
C2_FirstIsInitial == \A s \in Streams : pc[s] = "initSend" => devList[s] = AllHealthy

\* l is a listing of a map that was `was` when the iteration began and is
\* `now`: every entry as it was, or as it is now.
ListingOf(l, was, now) ==
    /\ DOMAIN was \subseteq DOMAIN l
    /\ DOMAIN l \subseteq DOMAIN now
    /\ \A k \in DOMAIN l : \/ k \in DOMAIN was /\ l[k] = was[k]
                           \/ l[k] = now[k]

\* C2 amended: the first message of a stream is the listing of dp.hospital
\* taken when the stream is opened: every device with the health it had at
\* the open (or one written during the iteration); it is the all-Healthy
\* snapshot of the initialization when no stream has received anything yet.
C2_FirstIsCurrent ==
    \A s \in Streams : pc[s] = "initSend" =>
        /\ ListingOf(devList[s], view[s], hospital)
        /\ Notified = {} => devList[s] = AllHealthy

\* A stream opened after another one marked a device sends a first message
\* that reports it Unhealthy.
C2_Witness == \E s \in Streams : pc[s] = "initSend" /\ UnhealthyIn(devList[s]) # {}

C4_ReturnNil == \A s \in atClose : pc[s] = "returned" => ret[s] = RetNil

\* Every stream that was running at the close has returned or is inside a
\* call of srv.Send, or the process has died.
Settled ==
    \/ crash # "none"
    \/ \A s \in atClose : pc[s] \in {"returned", "initSend", "send"}

\* C4 amended: once dp.done is closed, every stream running at that moment
\* eventually returns unless it stays blocked in srv.Send for ever (or the
\* process panics), whatever is pending on dp.unhealthyDev; it returns nil
\* unless one of its sends failed, and then it returns that error.
C4_ReturnUnlessSendBlocks ==
    /\ [](done = "closed" => <>[]Settled)
    /\ [](\A s \in atClose : pc[s] = "returned" => (ret[s] = RetNil \/ failed[s]))

\* A stream that was running at the close has returned nil while the
\* monitor still offers a notification.
C4_Witness ==
    \E s \in atClose : pc[s] = "returned" /\ ret[s] = RetNil /\ offer # NoId

\* C5: Shutdown may be invoked any number of times; an invocation after the
\* first does not crash the process with a second close of dp.done.
C5_ShutdownTwiceSafe == crash # "close of closed channel"

\* C6: an Allocate request that names an id missing from dp.devices does not
\* crash the process (it is answered, with a failure for that container).
C6_UnknownIdNoCrash ==
    (allocReq # NoAlloc /\ NilDeref(allocReq)) =>
        /\ crash # "invalid memory address or nil pointer dereference"
        /\ allocRet # NoAlloc

IsResponse(r) == "ContainerResponses" \in DOMAIN r

\* C7: when Allocate answers (every id known, the path resolver succeeded),
\* the response holds one container response per container request, in the
\* request's order, and after the complementary devices each container
\* response holds the specs of the requested ids in the request's order.
C7_OrderPreserved ==
    IsResponse(allocRet) =>
        LET Q == allocReq.ContainerRequests
            R == allocRet.ContainerResponses
        IN  /\ Len(R) = Len(Q)
            /\ \A c \in 1..Len(Q) :
                   LET ids == Q[c].DevicesIDs
                       D == R[c].Devices
                   IN  /\ Len(D) = Len(NvDevs) + Len(ids)
                       /\ \A i \in 1..Len(ids) :
                              D[Len(NvDevs) + i].HostPath = devices[ids[i]].Path

\* A response to two different container requests, one of them for two
\* different devices.
C7_Witness ==
    /\ IsResponse(allocRet)
    /\ Len(allocReq.ContainerRequests) = 2
    /\ allocReq.ContainerRequests[1] # allocReq.ContainerRequests[2]
    /\ \E c \in 1..2 : LET ids == allocReq.ContainerRequests[c].DevicesIDs
                       IN  Len(ids) = 2 /\ ids[1] # ids[2]

\* The last message stream s sent reported k Unhealthy.
Reported(s, k) == lastMsg[s] # NoMsg /\ k \in DOMAIN lastMsg[s] /\ lastMsg[s][k] = Unhealthy

\* C8: whenever a device has become Unhealthy and a stream waiting in its
\* select has not reported it, the stream eventually reports it (unless
\* shutdown is signalled, its send fails or does not return, or the process
\* dies), also when several streams share dp.unhealthyDev.
C8_EveryStreamReports ==
    \A s \in Streams, k \in HostUUIDs :
        []((/\ pc[s] = "select"
            /\ done = "open"
            /\ k \in DOMAIN hospital
            /\ hospital[k] = Unhealthy
            /\ ~Reported(s, k))
           => <>(\/ Reported(s, k)
                 \/ done = "closed"
                 \/ pc[s] = "send"
                 \/ failed[s]
                 \/ crash # "none"))

\* C9 as claimed: a stream whose send failed has returned at once, with an
\* "internal" error.
C9_FailedReturnsInternal ==
    \A s \in Streams : failed[s] => pc[s] = "returned" /\ ret[s] = RetInternal

\* C9 amended: a stream whose send failed (the initial one or a later one)
\* has returned at once, with an error of code Unknown; afterwards it sends
\* nothing and does not run again.
C9_FailedReturnsUnknown ==
    /\ [](\A s \in Streams : failed[s] => pc[s] = "returned" /\ ret[s] = RetUnknown)
    /\ [][\A s \in Streams : failed[s] =>
             /\ pc'[s] = "returned"
             /\ ret'[s] = ret[s]
             /\ nSent'[s] = nSent[s]]_vars

\* One stream failed its initial send, another one a later send.
C9_Witness ==
    \E s, t \in Streams : /\ failed[s] /\ nSent[s] = 0
                          /\ failed[t] /\ nSent[t] > 0

\* C10: a stream returns nil only when dp.done is closed, and returns an
\* error only after one of its own sends failed.
C10_ReturnsOnlyOnShutdownOrSendFailure ==
    \A s \in Streams : pc[s] = "returned" =>
        /\ ret[s] \in {RetNil, RetUnknown}
        /\ ret[s] = RetNil => done = "closed" /\ ~failed[s]
        /\ ret[s] # RetNil => failed[s]

\* One stream has returned nil and another one an error.
C10_Witness ==
    \E s, t \in Streams : /\ pc[s] = "returned" /\ ret[s] = RetNil
                          /\ pc[t] = "returned" /\ ret[t] = RetUnknown

C12_SnapshotsInOrder ==
    /\ [](\A s \in Streams :
            /\ pc[s] \in {"idle", "initList", "initSend"} => nSent[s] = 0 /\ nRecv[s] = 0
            /\ nRecv[s] <= nSent[s] /\ nSent[s] <= nRecv[s] + 1
            /\ pc[s] = "send" => /\ nSent[s] = nRecv[s]
                                 /\ devID[s] \in DOMAIN devList[s]
                                 /\ devList[s][devID[s]] = Unhealthy)
    /\ [][\A s \in Streams : nRecv'[s] # nRecv[s] =>
             /\ nRecv'[s] = nRecv[s] + 1
             /\ nSent[s] = nRecv[s] + 1
             /\ nSent'[s] = nSent[s]]_vars

\* A stream has sent its initial list and the lists for two notifications.
C12_Witness ==
    \E s \in Streams : pc[s] = "select" /\ nRecv[s] = 2 /\ nSent[s] = 3

\* C13: the constructor reports a load failure (ErrUnableToLoad) exactly
\* when nvml.Init or nvml.GetDriverVersion fails and "no devices"
\* (ErrNoGPUs) exactly when getDevices succeeds with an empty list; after
\* either no plugin was returned: the monitor was never started and no
\* ListAndWatch or Allocate call is ever served.
C13_TwoErrorKinds ==
    /\ \A lookOk, cfgOk, initOk, drvOk, devOk, monOk \in BOOLEAN, n \in 0..MaxGPUs :
         LET o == CtorOutcome(lookOk, cfgOk, initOk, drvOk, devOk, n, monOk)
             loaded == lookOk /\ cfgOk
         IN  /\ o.ret = "ErrUnableToLoad" <=> (loaded /\ (~initOk \/ ~drvOk))
             /\ o.ret = "ErrNoGPUs" <=> (loaded /\ initOk /\ drvOk /\ devOk /\ n = 0)
    /\ ctor \in {"ErrUnableToLoad", "ErrNoGPUs"} =>
         /\ monitor = "off" /\ offer = NoId /\ ~chanClosed
         /\ devices = EmptyMap /\ hospital = EmptyMap
         /\ \A s \in Streams : pc[s] = "idle" /\ nSent[s] = 0
         /\ allocReq = NoAlloc

\* The constructor has returned ErrNoGPUs.
C13_Witness == ctor = "ErrNoGPUs" /\ monitor = "off"

C15_HealthOneWay ==
    /\ []((ctor = "ok" /\ Notified = {}) => hospital = AllHealthy)
    /\ [][\A k \in DOMAIN hospital : hospital[k] = Unhealthy =>
             (k \in DOMAIN hospital' /\ hospital'[k] = Unhealthy)]_vars

\* A stream has written the same device a second time; it is still
\* Unhealthy.
C15_Witness ==
    \E s \in Streams, k \in DOMAIN devices :
        /\ pc[s] = "list" /\ nRecv[s] = 2 /\ recvBy[s] = {k}
        /\ hospital[k] = Unhealthy

\* C16: after a stream has handled a value received from dp.unhealthyDev
\* that is no key of dp.devices, dp.hospital holds no entry for it.
C16_UnknownIgnored ==
    \A s \in Streams :
        (/\ pc[s] \in {"list", "send", "select", "returned"}
         /\ devID[s] # NoId
         /\ devID[s] \notin DOMAIN devices)
        => devID[s] \notin DOMAIN hospital

\* C17: no stream is writing dp.hospital while another stream is writing it
\* or iterating it.
C17_MutualExclusion ==
    \A s, t \in Streams : (s # t /\ Writing(s)) => ~(Writing(t) \/ Iterating(t))

\* C18: NVML is never shut down while dp.done is open: every Shutdown has
\* closed dp.done before it calls nvml.Shutdown.
C18_SignalBeforeTeardown ==
    /\ nvml = "down" => done = "closed"
    /\ sdPending > 0 => done = "closed"

\* Shutdown of a served plugin has run to its end.
C18_Witness == ctor = "ok" /\ sdPending = 0 /\ nvml = "down" /\ done = "closed"

\* C19: in a successful response every container response holds the same
\* mounts, the library paths and then the binary paths, read-only with the
\* container path equal to the host path, and holds as devices the
\* complementary devices in the resolver's order and then one spec per
\* requested id, each "rw" with the container path equal to the host path.
C19_MountsAndDevices ==
    IsResponse(allocRet) =>
        LET Q == allocReq.ContainerRequests
            R == allocRet.ContainerResponses
            nl == Len(NvLibs)
            nd == Len(NvDevs)
        IN  \A c \in 1..Len(R) :
                LET M == R[c].Mounts
                    D == R[c].Devices
                    ids == Q[c].DevicesIDs
                IN  /\ Len(M) = nl + Len(NvBins)
                    /\ \A i \in 1..nl :
                           M[i] = [HostPath |-> NvLibs[i], ContainerPath |-> NvLibs[i],
                                   ReadOnly |-> TRUE]
                    /\ \A i \in 1..Len(NvBins) :
                           M[nl + i] = [HostPath |-> NvBins[i], ContainerPath |-> NvBins[i],
                                        ReadOnly |-> TRUE]
                    /\ Len(D) = nd + Len(ids)
                    /\ \A i \in 1..nd :
                           D[i] = [HostPath |-> NvDevs[i], ContainerPath |-> NvDevs[i],
                                   Permissions |-> "rw"]
                    /\ \A i \in 1..Len(ids) :
                           D[nd + i] = [HostPath |-> devices[ids[i]].Path,
                                        ContainerPath |-> devices[ids[i]].Path,
                                        Permissions |-> "rw"]

\* A response to a container request for no device and one for one device.
C19_Witness ==
    /\ IsResponse(allocRet)
    /\ Len(allocReq.ContainerRequests) = 2
    /\ Len(allocReq.ContainerRequests[1].DevicesIDs) = 0
    /\ Len(allocReq.ContainerRequests[2].DevicesIDs) = 1

\* C20: whenever the constructor has failed after nvml.Init succeeded (dp
\* was created), dp.Shutdown has run: dp.done is closed and NVML is shut
\* down.
C20_FailureShutsDown ==
    (ctor \notin {"none", "ok"} /\ done # "nil") => (done = "closed" /\ nvml = "down")

====
